---------------------------- MODULE Spec2Model ----------------------------
(***************************************************************************)
(* Model of bot.py: the anti-spam sliding window (on_message,              *)
(* anti_spam_cleaner, antispam_cmd) and the temporary sanctions (tempban,  *)
(* tempmute, tempjail with their manual reversals unban, unmute, unjail).  *)
(*                                                                         *)
(* The bot runs on one asyncio event loop: code between two awaits is      *)
(* atomic, and every await of a platform call is a point where other       *)
(* handlers run.  An action of this model is one such atomic stretch: it   *)
(* starts where a handler is invoked or resumes from an await and runs to  *)
(* the next await that matters (or to the handler's end).  The effect and  *)
(* the outcome (success or exception) of the awaited platform call are     *)
(* taken at the resumption.  Time is counted in whole ticks.               *)
(***************************************************************************)
EXTENDS Integers, Sequences, FiniteSets, TLC

(* ------------------------------ bounds -------------------------------- *)
MaxTime == 2
MaxHandlers == 2
MaxStamps == 3
MaxReqs == 2
MaxRestarts == 1
MaxWarns == 1

Guilds == {1, 2}
Users == {1}
\* The communities whose members write messages, and whose operators
\* configure the anti-spam, in SpecSpam.
SpamGuilds == {1}
\* The communities whose operators issue sanctions in SpecTemp and
\* SpecDirect, and store commands in SpecStore.
TempGuilds == {1}
StoreGuilds == {1}
HandlerIds == 1..MaxHandlers
ReqIds == 1..MaxReqs

\* Values the operator (antispam_cmd) or the environment (SPAM_THRESHOLD,
\* SPAM_WINDOW) may give; both are unvalidated ints.
ThresholdChoices == {0, 1, 2}
WindowChoices == {-1, 0, 1}
\* Durations an operator may give to tempban, tempmute, tempjail.
DurationChoices == {0, 1}
\* What the operators of the store commands give: the reason of a warning,
\* the note of a tag, the role of setmodrole, the channel of setwelcome
\* (None when it is left out; ids are positive).
Reasons == {"r"}
Notes == {"n"}
RoleIds == {7}
None == 0
WelcomeChoices == {None, 5}
\* interaction.user.id of the operator who warns.
Moderator == 3

VARIABLES
    now,             \* time.time(), in ticks
    SPAM_TRACK,      \* {guild_id: {user_id: [timestamps]}}
    SPAM_THRESHOLD,
    SPAM_WINDOW,
    handlers,        \* on_message invocations suspended at an await
    event,           \* history: the label of the step taken last
    mutedRole,       \* platform, per guild: number of roles named "Muted"
    jailedRole,      \* platform, per guild: number of roles named "Jailed"
    muted,           \* platform: <<guild, member>> pairs holding Muted
    jailed,          \* platform: <<guild, member>> pairs holding Jailed
    banned,          \* platform: <<guild, user>> pairs banned
    DATA,            \* the in-memory document
    file,            \* security_data.json
    reqs,            \* tempban, tempmute, tempjail invocations and their history
    restarts,        \* history: process restarts so far
    up               \* the process is running (module level completed)

spamVars == <<SPAM_TRACK, SPAM_THRESHOLD, SPAM_WINDOW, handlers>>
tempVars == <<jailedRole, jailed, banned, DATA, file, reqs>>
vars == <<now, SPAM_TRACK, SPAM_THRESHOLD, SPAM_WINDOW, handlers, event,
          mutedRole, jailedRole, muted, jailed, banned, DATA, file, reqs,
          restarts, up>>

IdleHandler == [pc |-> "idle", g |-> 0, u |-> 0]
\* The label of a step: the handler or command it belongs to, and what the
\* command told its invoker in that step ("success", "failure" or
\* "nothing"), which of its calls raised ("platform", "save" or "none"),
\* and the arguments that are not a guild or a member.
Step(op, g, u) ==
    [op |-> op, g |-> g, u |-> u, dropped |-> FALSE, said |-> "nothing",
     fault |-> "none", arg |-> <<>>]
Told(op, g, u, said, fault) ==
    [Step(op, g, u) EXCEPT !.said = said, !.fault = fault]
\* A command whose platform call stands in a try with a reporting except:
\* "..." on success, "Failed to ..." when the call raised.
Outcome(op, g, u, ok) ==
    IF ok THEN Told(op, g, u, "success", "none")
          ELSE Told(op, g, u, "failure", "platform")
NoEvent == Step("none", 0, 0)

(* ---------------------------- anti-spam -------------------------------- *)

\* [t for t in stamps if now - t <= SPAM_WINDOW]
PruneInverted(stamps, t, w) == SelectSeq(stamps, LAMBDA s : t - s >= w)
Prune(stamps, t, w) == SelectSeq(stamps, LAMBDA s : t - s <= w)

\* len(SPAM_TRACK[gid][uid]) >= SPAM_THRESHOLD
Exceeded(stamps, threshold) == Len(stamps) >= threshold

\* SPAM_TRACK.get(g, {}).get(u, [])
StampsOf(track, g, u) ==
    IF g \in DOMAIN track /\ u \in DOMAIN track[g] THEN track[g][u] ELSE <<>>

\* SPAM_TRACK[g][u] = stamps, with the setdefault of both levels
SetStamps(track, g, u, stamps) ==
    LET users == IF g \in DOMAIN track THEN track[g] ELSE <<>>
        users2 == [x \in DOMAIN users \cup {u} |->
                      IF x = u THEN stamps ELSE users[x]]
    IN  [y \in DOMAIN track \cup {g} |-> IF y = g THEN users2 ELSE track[y]]

\* SPAM_TRACK[gid][uid] = [], the assignment that ends the spam branch.
ResetSkipped(track, g, u) == track
Reset(track, g, u) == SetStamps(track, g, u, <<>>)

\* The threshold and the window on_message and the cleaner use for a guild:
\* the globals, whatever the guild.
EffectiveThreshold(g) == SPAM_THRESHOLD
EffectiveWindow(g) == SPAM_WINDOW

PendingFor(g, u) ==
    {h \in HandlerIds : handlers[h].pc # "idle" /\ handlers[h].g = g
                        /\ handlers[h].u = u}

FreeHandler == CHOOSE h \in HandlerIds :
    /\ handlers[h].pc = "idle"
    /\ \A k \in HandlerIds : handlers[k].pc = "idle" => h <= k

\* on_message up to its first await: record the event, prune, compare with
\* the threshold; a message under the threshold ends the handler here
\* (process_commands finds no text command).  Over the threshold the handler
\* looks the Muted role up and suspends in create_role or in add_roles.
OnMessage(g, u) ==
    LET before == StampsOf(SPAM_TRACK, g, u)
        after == Prune(Append(before, now), now, EffectiveWindow(g))
        exceeded == Exceeded(after, EffectiveThreshold(g))
    IN  /\ Len(before) < MaxStamps
        /\ exceeded => \E h \in HandlerIds : handlers[h].pc = "idle"
        /\ SPAM_TRACK' = SetStamps(SPAM_TRACK, g, u, after)
        /\ event' = [Step("message", g, u) EXCEPT
                        !.dropped = \E i \in 1..Len(before) :
                                       now - before[i] > SPAM_WINDOW]
        /\ handlers' =
              IF exceeded
              THEN [handlers EXCEPT ![FreeHandler] =
                      [pc |-> IF mutedRole[g] > 0 THEN "add" ELSE "create",
                       g |-> g, u |-> u]]
              ELSE handlers
        /\ UNCHANGED <<now, SPAM_THRESHOLD, SPAM_WINDOW, mutedRole, muted,
                       restarts, up>>
        /\ UNCHANGED tempVars

\* create_role and the set_permissions of every channel returned: the
\* role exists and the handler goes on to add_roles.
OnMessageCreated(h) ==
    /\ handlers[h].pc = "create"
    /\ mutedRole' = [mutedRole EXCEPT ![handlers[h].g] = @ + 1]
    /\ handlers' = [handlers EXCEPT ![h].pc = "add"]
    /\ event' = NoEvent
    /\ UNCHANGED <<now, SPAM_TRACK, SPAM_THRESHOLD, SPAM_WINDOW, muted,
                   restarts, up>>
    /\ UNCHANGED tempVars

\* add_roles, channel.send and log returned: the member is muted, the
\* window is reset and process_commands returns.
OnMessageMuted(h) ==
    /\ handlers[h].pc = "add"
    /\ muted' = muted \cup {<<handlers[h].g, handlers[h].u>>}
    /\ SPAM_TRACK' = Reset(SPAM_TRACK, handlers[h].g, handlers[h].u)
    /\ handlers' = [handlers EXCEPT ![h] = IdleHandler]
    /\ event' = Step("reset", handlers[h].g, handlers[h].u)
    /\ UNCHANGED <<now, SPAM_THRESHOLD, SPAM_WINDOW, mutedRole, restarts, up>>
    /\ UNCHANGED tempVars

\* An await of the spam branch raised (create_role or set_permissions:
\* role = None; add_roles or channel.send: pass): nobody is muted, the
\* window is reset and process_commands returns.
OnMessageFailed(h) ==
    /\ handlers[h].pc \in {"create", "add"}
    /\ SPAM_TRACK' = Reset(SPAM_TRACK, handlers[h].g, handlers[h].u)
    /\ handlers' = [handlers EXCEPT ![h] = IdleHandler]
    /\ event' = Step("reset", handlers[h].g, handlers[h].u)
    /\ UNCHANGED <<now, SPAM_THRESHOLD, SPAM_WINDOW, mutedRole, muted,
                   restarts, up>>
    /\ UNCHANGED tempVars

\* anti_spam_cleaner: one pass of the 15 s loop (it has no await).
SweepGuildTail(users, t, w) ==
    [u \in {x \in DOMAIN users : Len(users[x]) > 1} |-> Tail(users[u])]
SweepGuild(users, t, w) ==
    LET kept == {u \in DOMAIN users : Prune(users[u], t, w) # <<>>}
    IN  [u \in kept |-> Prune(users[u], t, w)]
SweepEvicting(track, t, w) ==
    [g \in {x \in DOMAIN track : SweepGuild(track[x], t, w) # <<>>} |->
        SweepGuild(track[g], t, w)]
Sweep(track, t, w) == [g \in DOMAIN track |-> SweepGuild(track[g], t, w)]

AntiSpamCleaner ==
    /\ SPAM_TRACK' = Sweep(SPAM_TRACK, now, SPAM_WINDOW)
    /\ event' = Step("sweep", 0, 0)
    /\ UNCHANGED <<now, SPAM_THRESHOLD, SPAM_WINDOW, handlers, mutedRole,
                   muted, restarts, up>>
    /\ UNCHANGED tempVars

\* antispam_cmd: both globals are overwritten with the arguments as given.
AntispamCmd(g, threshold, window) ==
    /\ SPAM_THRESHOLD' = threshold
    /\ SPAM_WINDOW' = window
    /\ event' = [Told("antispam", g, 0, "success", "none") EXCEPT
                    !.arg = <<threshold, window>>]
    /\ UNCHANGED <<now, SPAM_TRACK, handlers, mutedRole, muted, restarts, up>>
    /\ UNCHANGED tempVars

(* ------------------------------ store ---------------------------------- *)

\* The document a first start writes.
EmptyData == [warnings |-> <<>>, jails |-> <<>>, backups |-> <<>>,
              tags |-> <<>>, config |-> <<>>]

\* The TempAction records the document holds.
TempActions(data) ==
    IF "tempactions" \in DOMAIN data THEN DOMAIN data.tempactions ELSE {}

\* DATA["jails"][str(member.id)] = {"guild": ..., "time": ...}
PutJail(data, g, u, t) ==
    [data EXCEPT !.jails =
        [x \in DOMAIN @ \cup {u} |->
            IF x = u THEN [guild |-> g, time |-> t] ELSE @[x]]]

\* DATA.get("jails", {}).pop(str(member.id), None)
PopJail(data, u) ==
    [data EXCEPT !.jails = [x \in DOMAIN @ \ {u} |-> @[x]]]

\* json.dump(DATA, f, indent=2) run to its end on the file opened with "w":
\* the file holds the whole document.
Dump(data) == [whole |-> TRUE, doc |-> data]
\* What the file holds when the write stopped under way: open(.., "w") has
\* emptied it and nothing, or a proper prefix of the text, follows.  No such
\* prefix is a JSON text, so the model tells torn files apart no further.
Torn == [whole |-> FALSE, doc |-> EmptyData]
\* json.load(f) returns the document of a whole file and raises otherwise.
Parsable(f) == f.whole
LoadNothing(f) == EmptyData
Load(f) == f.doc

\* The ways save_data can end once open(.., "w") has emptied the file: it
\* returns; the write raises under way (the disk is full, say); the process
\* dies under way.
SaveOutcomes == {"saved", "torn", "killed"}
Written(f, data, out) == IF out = "saved" THEN Dump(data) ELSE Torn

\* The module level on a start: DATA is what json.load returns, and an
\* exception of json.load ends the process before the bot runs.  A process
\* that is not running has no memory; DATA is then the empty document.
StartedWithDefaults(f) ==
    IF Parsable(f) THEN [up |-> TRUE, DATA |-> Load(f)]
                   ELSE [up |-> TRUE, DATA |-> EmptyData]
Started(f) ==
    IF Parsable(f) THEN [up |-> TRUE, DATA |-> Load(f)]
                   ELSE [up |-> FALSE, DATA |-> EmptyData]

\* d.get(k, default);  d[k] = v;  d.pop(k, None)
GetOr(d, k, default) == IF k \in DOMAIN d THEN d[k] ELSE default
With(d, k, v) == [x \in DOMAIN d \cup {k} |-> IF x = k THEN v ELSE d[x]]
Without(d, k) == [x \in DOMAIN d \ {k} |-> d[x]]

\* DATA["warnings"][gid][str(member.id)].append(w), after the setdefaults
PutWarning(data, g, u, w) ==
    [data EXCEPT !.warnings =
        With(@, g, With(GetOr(@, g, <<>>), u,
                        Append(GetOr(GetOr(@, g, <<>>), u, <<>>), w)))]

\* DATA.get("warnings", {}).get(gid, {}).pop(str(member.id), None)
PopWarnings(data, g, u) ==
    IF g \in DOMAIN data.warnings
    THEN [data EXCEPT !.warnings[g] = Without(@, u)]
    ELSE data

\* DATA["tags"][gid][str(member.id)] = note, after the setdefaults
PutTag(data, g, u, note) ==
    [data EXCEPT !.tags = With(@, g, With(GetOr(@, g, <<>>), u, note))]

\* DATA["backups"][gid] = {...}
PutBackup(data, g, b) == [data EXCEPT !.backups = With(@, g, b)]

\* DATA["config"][gid][field] = value, after the setdefaults
PutConfig(data, g, field, value) ==
    [data EXCEPT !.config = With(@, g, With(GetOr(@, g, <<>>), field, value))]

\* guild.name, guild.roles and guild.channels as backup_cmd records them
\* (the model keeps the roles named Muted and Jailed and no channels).
Snapshot(g) ==
    [name |-> g,
     roles |-> [i \in 1..(mutedRole[g] + jailedRole[g]) |->
                   IF i <= mutedRole[g] THEN "Muted" ELSE "Jailed"],
     channels |-> <<>>]

\* The coroutines the end of the process takes along.
Lost(rs) ==
    [r \in ReqIds |->
        IF rs[r].pc \in {"create", "add", "sleep"}
        THEN [rs[r] EXCEPT !.pc = "lost"] ELSE rs[r]]

\* A command's write to the store: DATA has been changed to data and
\* save_data() is called.  label is the step when save_data returns, rs
\* the coroutines of the process after the step; caught says that the call
\* stands in a try whose except branch reports the failure (otherwise the
\* exception leaves the command).  An exception of save_data leaves DATA as
\* changed.
Commit(label, caught, data, out, rs) ==
    /\ file' = Written(file, data, out)
    /\ IF out = "killed"
       THEN /\ up' = FALSE
            /\ DATA' = EmptyData
            /\ SPAM_TRACK' = <<>>
            /\ handlers' = [h \in HandlerIds |-> IdleHandler]
            /\ reqs' = Lost(rs)
            /\ event' = [label EXCEPT !.said = "nothing", !.fault = "killed"]
       ELSE /\ up' = up
            /\ DATA' = data
            /\ UNCHANGED <<SPAM_TRACK, handlers>>
            /\ reqs' = rs
            /\ event' = IF out = "saved" THEN label
                        ELSE [label EXCEPT
                                !.said = IF caught THEN "failure" ELSE "raised",
                                !.fault = "save"]

\* warn_cmd after the defer: the warning is appended and saved inside the
\* try, then "Warned ..." is sent.
WarnCmd(g, u, reason, out) ==
    /\ up
    /\ Len(GetOr(GetOr(DATA.warnings, g, <<>>), u, <<>>)) < MaxWarns
    /\ Commit(Told("warn", g, u, "success", "none"), TRUE,
              PutWarning(DATA, g, u,
                         [by |-> Moderator, reason |-> reason, time |-> now]),
              out, reqs)
    /\ UNCHANGED <<now, SPAM_THRESHOLD, SPAM_WINDOW, mutedRole, jailedRole,
                   muted, jailed, banned, restarts>>

ClearwarnsCmd(g, u, out) ==
    /\ up
    /\ Commit(Told("clearwarns", g, u, "success", "none"), FALSE,
              PopWarnings(DATA, g, u), out, reqs)
    /\ UNCHANGED <<now, SPAM_THRESHOLD, SPAM_WINDOW, mutedRole, jailedRole,
                   muted, jailed, banned, restarts>>

TagCmd(g, u, note, out) ==
    /\ up
    /\ Commit(Told("tag", g, u, "success", "none"), FALSE,
              PutTag(DATA, g, u, note), out, reqs)
    /\ UNCHANGED <<now, SPAM_THRESHOLD, SPAM_WINDOW, mutedRole, jailedRole,
                   muted, jailed, banned, restarts>>

BackupCmd(g, out) ==
    /\ up
    /\ Commit(Told("backup", g, 0, "success", "none"), FALSE,
              PutBackup(DATA, g, Snapshot(g)), out, reqs)
    /\ UNCHANGED <<now, SPAM_THRESHOLD, SPAM_WINDOW, mutedRole, jailedRole,
                   muted, jailed, banned, restarts>>

SetmodroleCmd(g, role, out) ==
    /\ up
    /\ Commit(Told("setmodrole", g, 0, "success", "none"), FALSE,
              PutConfig(DATA, g, "modrole", role), out, reqs)
    /\ UNCHANGED <<now, SPAM_THRESHOLD, SPAM_WINDOW, mutedRole, jailedRole,
                   muted, jailed, banned, restarts>>

\* channel is the id of the channel given, or None.
SetwelcomeCmd(g, channel, out) ==
    /\ up
    /\ Commit(Told("setwelcome", g, 0, "success", "none"), FALSE,
              PutConfig(DATA, g, "welcome_channel", channel), out, reqs)
    /\ UNCHANGED <<now, SPAM_THRESHOLD, SPAM_WINDOW, mutedRole, jailedRole,
                   muted, jailed, banned, restarts>>

(* ----------------------- temporary sanctions --------------------------- *)

\* One invocation of tempban, tempmute or tempjail.  pc is where the
\* coroutine stands: "create" (awaiting create_role), "sleep" (in
\* asyncio.sleep), "done", "failed" (left through an exception before the
\* sleep), "lost" (the process ended under it).  The other fields are
\* history: applied (the sanction took effect on the platform), applyFailed
\* (the platform refused it), due (when the duration ends), cancelled (an
\* operator reversed it by hand while it slept), autoRev (reverse calls made
\* by the coroutine itself), revFailed (such a call raised), msgs (what the
\* invoker and the log channel were told: "applied", "failed", "reversed",
\* or "raised" for an exception that left the command).
NewReq(kind, g, u, d, pc) ==
    [kind |-> kind, g |-> g, u |-> u, pc |-> pc, dur |-> d, due |-> -1,
     applied |-> FALSE, applyFailed |-> FALSE, cancelled |-> FALSE,
     autoRev |-> 0, revFailed |-> FALSE, msgs |-> {}]
IdleReq == NewReq("none", 0, 0, 0, "idle")

FreeReq == CHOOSE r \in ReqIds :
    /\ reqs[r].pc = "idle"
    /\ \A k \in ReqIds : reqs[k].pc = "idle" => r <= k
\* A new invocation that would wait for every sleeping one to return.
HasFreeReqQuiet ==
    /\ \E r \in ReqIds : reqs[r].pc = "idle"
    /\ \A r \in ReqIds : reqs[r].pc # "sleep"
HasFreeReq == \E r \in ReqIds : reqs[r].pc = "idle"

\* asyncio.sleep(d) returns at once for d <= 0.
SleepEnd(t, d) == IF d > 0 THEN t + d ELSE t

\* tempban and tempmute from the platform call on: the call raised (ok is
\* false: "Failed to ..." is sent and the coroutine ends), or it went
\* through and the followup raised (sent is false: the same except branch),
\* or the coroutine goes to sleep.
Applied(req, t, ok, sent) ==
    IF ~ok
    THEN [req EXCEPT !.pc = "failed", !.applyFailed = TRUE,
                     !.msgs = @ \cup {"failed"}]
    ELSE IF ~sent
    THEN [req EXCEPT !.pc = "failed", !.applied = TRUE,
                     !.due = SleepEnd(t, req.dur), !.msgs = @ \cup {"failed"}]
    ELSE [req EXCEPT !.pc = "sleep", !.applied = TRUE,
                     !.due = SleepEnd(t, req.dur), !.msgs = @ \cup {"applied"}]

\* tempjail from add_roles on: jail_cmd reports what add_roles did and
\* returns either way; tempjail_cmd then sends its own followup (sent) and
\* sleeps.
Jailed(req, t, ok, sent) ==
    LET told == req.msgs \cup (IF ok THEN {"applied"} ELSE {"failed"})
    IN  IF ~sent
        THEN [req EXCEPT !.pc = "failed", !.applied = ok, !.applyFailed = ~ok,
                         !.due = SleepEnd(t, req.dur), !.msgs = told]
        ELSE [req EXCEPT !.pc = "sleep", !.applied = ok, !.applyFailed = ~ok,
                         !.due = SleepEnd(t, req.dur),
                         !.msgs = told \cup {"applied"}]

\* The coroutine woke up and made its reverse call.  Only tempban says
\* anything afterwards ("Auto-unbanned"), and only on success; unjail_cmd
\* says "Unjailed" whatever remove_roles did.
Reversed(req, ok) ==
    [req EXCEPT !.pc = "done", !.autoRev = @ + 1, !.revFailed = ~ok,
                !.msgs = IF (req.kind = "ban" /\ ok) \/ req.kind = "jail"
                         THEN @ \cup {"reversed"} ELSE @]

\* The sleeping invocations for a key see an operator's reverse call.
Cancel(rs, kind, g, u) ==
    [r \in ReqIds |->
        IF rs[r].pc = "sleep" /\ rs[r].kind = kind /\ rs[r].g = g
           /\ rs[r].u = u
        THEN [rs[r] EXCEPT !.cancelled = TRUE] ELSE rs[r]]

Tempban(g, u, d, ok, sent) ==
    /\ HasFreeReq
    /\ reqs' = [reqs EXCEPT ![FreeReq] =
                   Applied(NewReq("ban", g, u, d, "apply"), now, ok, sent)]
    /\ banned' = IF ok THEN banned \cup {<<g, u>>} ELSE banned
    /\ event' = NoEvent
    /\ UNCHANGED <<now, mutedRole, muted, jailedRole, jailed, DATA, file,
                   restarts, up>>
    /\ UNCHANGED spamVars

TempbanWake(r, ok) ==
    /\ reqs[r].pc = "sleep" /\ reqs[r].kind = "ban" /\ now >= reqs[r].due
    /\ reqs' = [reqs EXCEPT ![r] = Reversed(@, ok)]
    /\ banned' = IF ok THEN banned \ {<<reqs[r].g, reqs[r].u>>} ELSE banned
    /\ event' = NoEvent
    /\ UNCHANGED <<now, mutedRole, muted, jailedRole, jailed, DATA, file,
                   restarts, up>>
    /\ UNCHANGED spamVars

\* unban: guild.unban is called whether or not a tempban is pending.
Unban(g, u, ok) ==
    /\ reqs' = Cancel(reqs, "ban", g, u)
    /\ banned' = IF ok THEN banned \ {<<g, u>>} ELSE banned
    /\ event' = Outcome("unban", g, u, ok)
    /\ UNCHANGED <<now, mutedRole, muted, jailedRole, jailed, DATA, file,
                   restarts, up>>
    /\ UNCHANGED spamVars

\* tempmute, _ensure_muted_role finding the role: add_roles and the sleep
\* follow; not finding it: the coroutine awaits create_role.
Tempmute(g, u, d, ok, sent) ==
    /\ HasFreeReq
    /\ IF mutedRole[g] > 0
       THEN /\ reqs' = [reqs EXCEPT ![FreeReq] =
                   Applied(NewReq("mute", g, u, d, "apply"), now, ok, sent)]
            /\ muted' = IF ok THEN muted \cup {<<g, u>>} ELSE muted
       ELSE /\ reqs' = [reqs EXCEPT ![FreeReq] =
                   NewReq("mute", g, u, d, "create")]
            /\ muted' = muted
    /\ event' = NoEvent
    /\ UNCHANGED <<now, mutedRole, jailedRole, jailed, banned, DATA, file,
                   restarts, up>>
    /\ UNCHANGED spamVars

\* create_role returned to _ensure_muted_role (created is false: it raised
\* and tempmute reports the failure).
TempmuteCreated(r, created, ok, sent) ==
    /\ reqs[r].pc = "create" /\ reqs[r].kind = "mute"
    /\ IF created
       THEN /\ mutedRole' = [mutedRole EXCEPT ![reqs[r].g] = @ + 1]
            /\ reqs' = [reqs EXCEPT ![r] = Applied(@, now, ok, sent)]
            /\ muted' = IF ok THEN muted \cup {<<reqs[r].g, reqs[r].u>>}
                              ELSE muted
       ELSE /\ mutedRole' = mutedRole
            /\ reqs' = [reqs EXCEPT ![r] = Applied(@, now, FALSE, sent)]
            /\ muted' = muted
    /\ event' = NoEvent
    /\ UNCHANGED <<now, jailedRole, jailed, banned, DATA, file, restarts, up>>
    /\ UNCHANGED spamVars

TempmuteWake(r, ok) ==
    /\ reqs[r].pc = "sleep" /\ reqs[r].kind = "mute" /\ now >= reqs[r].due
    /\ reqs' = [reqs EXCEPT ![r] = Reversed(@, ok)]
    /\ muted' = IF ok THEN muted \ {<<reqs[r].g, reqs[r].u>>} ELSE muted
    /\ event' = NoEvent
    /\ UNCHANGED <<now, mutedRole, jailedRole, jailed, banned, DATA, file,
                   restarts, up>>
    /\ UNCHANGED spamVars

\* unmute: remove_roles is called when the guild has a Muted role.
Unmute(g, u, ok) ==
    /\ mutedRole[g] > 0
    /\ reqs' = Cancel(reqs, "mute", g, u)
    /\ muted' = IF ok THEN muted \ {<<g, u>>} ELSE muted
    /\ event' = Outcome("unmute", g, u, ok)
    /\ UNCHANGED <<now, mutedRole, jailedRole, jailed, banned, DATA, file,
                   restarts, up>>
    /\ UNCHANGED spamVars

\* tempjail_cmd calling jail_cmd.  With a Jailed role: the record is written
\* and saved, then add_roles, the followups and the sleep.  Without: the
\* coroutine awaits create_role.
Tempjail(g, u, d, ok, sent) ==
    /\ HasFreeReq
    /\ IF jailedRole[g] > 0
       THEN /\ reqs' = [reqs EXCEPT ![FreeReq] =
                   Jailed(NewReq("jail", g, u, d, "apply"), now, ok, sent)]
            /\ jailed' = IF ok THEN jailed \cup {<<g, u>>} ELSE jailed
            /\ DATA' = PutJail(DATA, g, u, now)
            /\ file' = Dump(DATA')
       ELSE /\ reqs' = [reqs EXCEPT ![FreeReq] =
                   NewReq("jail", g, u, d, "create")]
            /\ UNCHANGED <<jailed, DATA, file>>
    /\ event' = NoEvent
    /\ UNCHANGED <<now, mutedRole, muted, jailedRole, banned, restarts, up>>
    /\ UNCHANGED spamVars

\* create_role returned to jail_cmd (created is false: it raised, and the
\* exception leaves jail_cmd and tempjail_cmd, which catch nothing there).
TempjailCreated(r, created, ok, sent) ==
    /\ reqs[r].pc = "create" /\ reqs[r].kind = "jail"
    /\ IF created
       THEN /\ jailedRole' = [jailedRole EXCEPT ![reqs[r].g] = @ + 1]
            /\ reqs' = [reqs EXCEPT ![r] = Jailed(@, now, ok, sent)]
            /\ jailed' = IF ok THEN jailed \cup {<<reqs[r].g, reqs[r].u>>}
                               ELSE jailed
            /\ DATA' = PutJail(DATA, reqs[r].g, reqs[r].u, now)
            /\ file' = Dump(DATA')
       ELSE /\ reqs' = [reqs EXCEPT ![r].pc = "failed", ![r].applyFailed = TRUE,
                                     ![r].msgs = @ \cup {"raised"}]
            /\ UNCHANGED <<jailedRole, jailed, DATA, file>>
    /\ event' = NoEvent
    /\ UNCHANGED <<now, mutedRole, muted, banned, restarts, up>>
    /\ UNCHANGED spamVars

\* tempjail_cmd woke up and called unjail_cmd: remove_roles (the Jailed role
\* exists by now), whose exception is passed over, then the record is
\* popped and saved.
TempjailWake(r, ok) ==
    /\ reqs[r].pc = "sleep" /\ reqs[r].kind = "jail" /\ now >= reqs[r].due
    /\ reqs' = [reqs EXCEPT ![r] = Reversed(@, ok)]
    /\ jailed' = IF ok THEN jailed \ {<<reqs[r].g, reqs[r].u>>} ELSE jailed
    /\ DATA' = PopJail(DATA, reqs[r].u)
    /\ file' = Dump(DATA')
    /\ event' = NoEvent
    /\ UNCHANGED <<now, mutedRole, muted, jailedRole, banned, restarts, up>>
    /\ UNCHANGED spamVars

\* unjail_cmd by an operator: with a Jailed role remove_roles is called and
\* its exception passed over; the record is popped and saved and "Unjailed"
\* is sent.
Unjail(g, u, ok, out) ==
    /\ up
    /\ jailed' = IF jailedRole[g] > 0 /\ ok THEN jailed \ {<<g, u>>}
                                            ELSE jailed
    /\ Commit(Told("unjail", g, u, "success",
                   IF jailedRole[g] > 0 /\ ~ok THEN "platform" ELSE "none"),
              FALSE, PopJail(DATA, u), out,
              IF jailedRole[g] > 0 THEN Cancel(reqs, "jail", g, u) ELSE reqs)
    /\ UNCHANGED <<now, SPAM_THRESHOLD, SPAM_WINDOW, mutedRole, muted,
                   jailedRole, banned, restarts>>

(* -------------------------- direct commands ---------------------------- *)

\* ban: member.ban inside the try.
Ban(g, u, ok) ==
    /\ up
    /\ banned' = IF ok THEN banned \cup {<<g, u>>} ELSE banned
    /\ event' = Outcome("ban", g, u, ok)
    /\ UNCHANGED <<now, mutedRole, muted, jailedRole, jailed, DATA, file,
                   reqs, restarts, up>>
    /\ UNCHANGED spamVars

\* mute, _ensure_muted_role finding the role: add_roles follows; not
\* finding it: the command awaits create_role.
Mute(g, u, ok) ==
    /\ up
    /\ IF mutedRole[g] > 0
       THEN /\ muted' = IF ok THEN muted \cup {<<g, u>>} ELSE muted
            /\ event' = Outcome("mute", g, u, ok)
            /\ reqs' = reqs
       ELSE /\ HasFreeReq
            /\ reqs' = [reqs EXCEPT ![FreeReq] =
                           NewReq("mutecmd", g, u, 0, "create")]
            /\ event' = Step("mute", g, u)
            /\ muted' = muted
    /\ UNCHANGED <<now, mutedRole, jailedRole, jailed, banned, DATA, file,
                   restarts, up>>
    /\ UNCHANGED spamVars

\* create_role returned to _ensure_muted_role under mute (created is false:
\* it raised, and mute reports the failure); add_roles follows.
MuteCreated(r, created, ok) ==
    /\ reqs[r].pc = "create" /\ reqs[r].kind = "mutecmd"
    /\ mutedRole' = IF created THEN [mutedRole EXCEPT ![reqs[r].g] = @ + 1]
                              ELSE mutedRole
    /\ muted' = IF created /\ ok THEN muted \cup {<<reqs[r].g, reqs[r].u>>}
                                 ELSE muted
    /\ event' = Outcome("mute", reqs[r].g, reqs[r].u, created /\ ok)
    /\ reqs' = [reqs EXCEPT ![r] = IdleReq]
    /\ UNCHANGED <<now, jailedRole, jailed, banned, DATA, file, restarts, up>>
    /\ UNCHANGED spamVars

\* jail_cmd from the point where the Jailed role is at hand: the record is
\* written and saved, and the command awaits add_roles.
JailCmdWrite(r, g, u, out) ==
    Commit(Step("jail", g, u), FALSE, PutJail(DATA, g, u, now), out,
           [reqs EXCEPT ![r] = IF out = "saved"
                               THEN NewReq("jailcmd", g, u, 0, "add")
                               ELSE IdleReq])

\* jail_cmd after the defer: the role is looked up; without one the command
\* awaits create_role.
JailCmd(g, u, out) ==
    /\ up
    /\ HasFreeReq
    /\ IF jailedRole[g] > 0
       THEN JailCmdWrite(FreeReq, g, u, out)
       ELSE /\ reqs' = [reqs EXCEPT ![FreeReq] =
                           NewReq("jailcmd", g, u, 0, "create")]
            /\ event' = Step("jail", g, u)
            /\ UNCHANGED <<DATA, file, up, SPAM_TRACK, handlers>>
    /\ UNCHANGED <<now, SPAM_THRESHOLD, SPAM_WINDOW, mutedRole, muted,
                   jailedRole, jailed, banned, restarts>>

\* create_role returned to jail_cmd (created is false: it raised, and the
\* exception leaves the command).
JailCmdCreated(r, created, out) ==
    /\ reqs[r].pc = "create" /\ reqs[r].kind = "jailcmd"
    /\ IF created
       THEN /\ jailedRole' = [jailedRole EXCEPT ![reqs[r].g] = @ + 1]
            /\ JailCmdWrite(r, reqs[r].g, reqs[r].u, out)
       ELSE /\ reqs' = [reqs EXCEPT ![r] = IdleReq]
            /\ event' = Told("jail", reqs[r].g, reqs[r].u, "raised",
                             "platform")
            /\ UNCHANGED <<jailedRole, DATA, file, up, SPAM_TRACK, handlers>>
    /\ UNCHANGED <<now, SPAM_THRESHOLD, SPAM_WINDOW, mutedRole, muted,
                   jailed, banned, restarts>>

\* add_roles returned to jail_cmd: "Jailed ..." or "Failed to jail: ...".
JailCmdAdded(r, ok) ==
    /\ reqs[r].pc = "add" /\ reqs[r].kind = "jailcmd"
    /\ jailed' = IF ok THEN jailed \cup {<<reqs[r].g, reqs[r].u>>} ELSE jailed
    /\ event' = Outcome("jail", reqs[r].g, reqs[r].u, ok)
    /\ reqs' = [reqs EXCEPT ![r] = IdleReq]
    /\ UNCHANGED <<now, mutedRole, muted, jailedRole, banned, DATA, file,
                   restarts, up>>
    /\ UNCHANGED spamVars

\* No sleeping coroutine is due: the loop wakes a coroutine in the tick its
\* sleep ends.
TimersQuiet == \A r \in ReqIds : reqs[r].pc = "sleep" => reqs[r].due > now

(* --------------------------- time, restart ----------------------------- *)

Tick ==
    /\ now < MaxTime
    /\ TimersQuiet
    /\ now' = now + 1
    /\ event' = NoEvent
    /\ UNCHANGED <<mutedRole, muted, restarts, up>>
    /\ UNCHANGED spamVars
    /\ UNCHANGED tempVars

\* The process ends and starts again: the module level runs anew (DATA is
\* loaded from the file, the anti-spam globals are set from the
\* environment, which gives threshold and window, SPAM_TRACK is empty) and
\* every coroutine is gone; on_ready
\* starts the cleaner and syncs the commands.  The platform keeps its state.
Restart(threshold, window) ==
    /\ restarts < MaxRestarts
    /\ restarts' = restarts + 1
    /\ up' = Started(file).up
    /\ DATA' = Started(file).DATA
    /\ SPAM_TRACK' = <<>>
    /\ SPAM_THRESHOLD' = threshold
    /\ SPAM_WINDOW' = window
    /\ handlers' = [h \in HandlerIds |-> IdleHandler]
    /\ reqs' = Lost(reqs)
    /\ event' = Told("start", 0, 0, "nothing",
                     IF Parsable(file) THEN "none" ELSE "load")
    /\ UNCHANGED <<now, mutedRole, jailedRole, muted, jailed, banned, file>>

\* The state once the module level and on_ready have run for the first
\* time; jr tells, per guild, how many roles named Jailed the guild has.
InitWith(jr) ==
    /\ now = 0
    /\ SPAM_TRACK = <<>>
    /\ SPAM_THRESHOLD \in ThresholdChoices
    /\ SPAM_WINDOW \in WindowChoices
    /\ handlers = [h \in HandlerIds |-> IdleHandler]
    /\ event = NoEvent
    /\ mutedRole = [g \in Guilds |-> 0]
    /\ jailedRole = jr
    /\ muted = {}
    /\ jailed = {}
    /\ banned = {}
    /\ DATA = EmptyData
    /\ file = Dump(EmptyData)
    /\ reqs = [r \in ReqIds |-> IdleReq]
    /\ restarts = 0
    /\ up = TRUE

Init == InitWith([g \in Guilds |-> 0])

SpamNext ==
    \/ \E g \in SpamGuilds, u \in Users : OnMessage(g, u)
    \/ \E h \in HandlerIds : OnMessageCreated(h)
    \/ \E h \in HandlerIds : OnMessageMuted(h)
    \/ \E h \in HandlerIds : OnMessageFailed(h)
    \/ AntiSpamCleaner
    \/ \E g \in SpamGuilds, t \in ThresholdChoices, w \in WindowChoices :
          AntispamCmd(g, t, w)
    \/ Tick
    \/ \E t \in ThresholdChoices, w \in WindowChoices : Restart(t, w)

SpecSpam == Init /\ [][SpamNext]_vars

TempNext ==
    \/ \E g \in TempGuilds, u \in Users, d \in DurationChoices, ok, sent \in BOOLEAN :
          Tempban(g, u, d, ok, sent)
    \/ \E r \in ReqIds, ok \in BOOLEAN : TempbanWake(r, ok)
    \/ \E g \in TempGuilds, u \in Users, ok \in BOOLEAN : Unban(g, u, ok)
    \/ \E g \in TempGuilds, u \in Users, d \in DurationChoices, ok, sent \in BOOLEAN :
          Tempmute(g, u, d, ok, sent)
    \/ \E r \in ReqIds, created, ok, sent \in BOOLEAN :
          TempmuteCreated(r, created, ok, sent)
    \/ \E r \in ReqIds, ok \in BOOLEAN : TempmuteWake(r, ok)
    \/ \E g \in TempGuilds, u \in Users, ok \in BOOLEAN : Unmute(g, u, ok)
    \/ \E g \in TempGuilds, u \in Users, d \in DurationChoices, ok, sent \in BOOLEAN :
          Tempjail(g, u, d, ok, sent)
    \/ \E r \in ReqIds, created, ok, sent \in BOOLEAN :
          TempjailCreated(r, created, ok, sent)
    \/ \E r \in ReqIds, ok \in BOOLEAN : TempjailWake(r, ok)
    \/ \E g \in TempGuilds, u \in Users, ok \in BOOLEAN :
          Unjail(g, u, ok, "saved")
    \/ Tick
    \/ Restart(SPAM_THRESHOLD, SPAM_WINDOW)

\* The temporary sanctions under one setting of the environment.
TempInit == Init /\ SPAM_THRESHOLD = 2 /\ SPAM_WINDOW = 1

SpecTemp == TempInit /\ [][TempNext]_vars

\* The commands that write to the store, with every way save_data can end,
\* and the restarts that read the file back.
StoreNext ==
    \/ \E g \in StoreGuilds, u \in Users, reason \in Reasons,
          out \in SaveOutcomes : WarnCmd(g, u, reason, out)
    \/ \E g \in StoreGuilds, u \in Users, out \in SaveOutcomes :
          ClearwarnsCmd(g, u, out)
    \/ \E g \in StoreGuilds, u \in Users, note \in Notes, out \in SaveOutcomes :
          TagCmd(g, u, note, out)
    \/ \E g \in StoreGuilds, out \in SaveOutcomes : BackupCmd(g, out)
    \/ \E g \in StoreGuilds, role \in RoleIds, out \in SaveOutcomes :
          SetmodroleCmd(g, role, out)
    \/ \E g \in StoreGuilds, channel \in WelcomeChoices, out \in SaveOutcomes :
          SetwelcomeCmd(g, channel, out)
    \/ \E g \in StoreGuilds, u \in Users, out \in SaveOutcomes :
          JailCmd(g, u, out)
    \/ \E r \in ReqIds, ok \in BOOLEAN : JailCmdAdded(r, ok)
    \/ \E g \in StoreGuilds, u \in Users, ok \in BOOLEAN, out \in SaveOutcomes :
          Unjail(g, u, ok, out)
    \/ Restart(SPAM_THRESHOLD, SPAM_WINDOW)

\* The store commands in communities that have their Jailed role.
StoreInit ==
    InitWith([g \in Guilds |-> 1]) /\ SPAM_THRESHOLD = 2 /\ SPAM_WINDOW = 1

SpecStore == StoreInit /\ [][StoreNext]_vars

\* jail and unjail in every community, the process staying up.
JailNext ==
    \/ \E g \in Guilds, u \in Users, out \in SaveOutcomes \ {"killed"} :
          JailCmd(g, u, out)
    \/ \E r \in ReqIds, created \in BOOLEAN, out \in SaveOutcomes \ {"killed"} :
          JailCmdCreated(r, created, out)
    \/ \E r \in ReqIds, ok \in BOOLEAN : JailCmdAdded(r, ok)
    \/ \E g \in Guilds, u \in Users, ok \in BOOLEAN,
          out \in SaveOutcomes \ {"killed"} : Unjail(g, u, ok, out)

SpecJail == TempInit /\ [][JailNext]_vars

\* The sanctions an operator applies and lifts by hand.
DirectNext ==
    \/ \E g \in TempGuilds, u \in Users, ok \in BOOLEAN : Ban(g, u, ok)
    \/ \E g \in TempGuilds, u \in Users, ok \in BOOLEAN : Unban(g, u, ok)
    \/ \E g \in TempGuilds, u \in Users, ok \in BOOLEAN : Mute(g, u, ok)
    \/ \E r \in ReqIds, created, ok \in BOOLEAN : MuteCreated(r, created, ok)
    \/ \E g \in TempGuilds, u \in Users, ok \in BOOLEAN : Unmute(g, u, ok)
    \/ \E g \in TempGuilds, u \in Users : JailCmd(g, u, "saved")
    \/ \E r \in ReqIds, created \in BOOLEAN : JailCmdCreated(r, created, "saved")
    \/ \E r \in ReqIds, ok \in BOOLEAN : JailCmdAdded(r, ok)
    \/ \E g \in TempGuilds, u \in Users, ok \in BOOLEAN :
          Unjail(g, u, ok, "saved")

SpecDirect == TempInit /\ [][DirectNext]_vars

\* Messages and temporary bans on the one event loop, with positive
\* durations and a platform that carries out every call.
MixNext ==
    \/ \E g \in SpamGuilds, u \in Users : OnMessage(g, u)
    \/ \E h \in HandlerIds : OnMessageCreated(h)
    \/ \E h \in HandlerIds : OnMessageMuted(h)
    \/ \E h \in HandlerIds : OnMessageFailed(h)
    \/ \E g \in TempGuilds, u \in Users, d \in DurationChoices \ {0} :
          Tempban(g, u, d, TRUE, TRUE)
    \/ \E r \in ReqIds : TempbanWake(r, TRUE)
    \/ Tick

SpecMix == TempInit /\ [][MixNext]_vars

(* ------------------------- claims: anti-spam --------------------------- *)

IsMessage(e, g, u) == e.op = "message" /\ e.g = g /\ e.u = u
IsReset(e, g, u) == e.op = "reset" /\ e.g = g /\ e.u = u

\* The timestamps of an actor that lie within the window once the event at
\* time t is recorded, counted one by one.
InWindowCount(track, g, u, t, w) ==
    LET seen == Append(StampsOf(track, g, u), t)
    IN  Cardinality({i \in 1..Len(seen) : t - seen[i] <= w})

\* Every timestamp held for the actor is further than the window away.
Spaced(track, g, u, t, w) ==
    \A i \in 1..Len(StampsOf(track, g, u)) : t - StampsOf(track, g, u)[i] > w

\* The step raised the spam verdict for the actor: its handler entered the
\* spam branch and is suspended there.
VerdictRaised(g, u) ==
    Cardinality(PendingFor(g, u)') = Cardinality(PendingFor(g, u)) + 1

\* C1: the event that brings the count of in-window timestamps to the
\* threshold raises the spam verdict; when the handling of a verdict
\* completes the actor's sequence is there and empty; and an event recorded
\* on an empty sequence starts a window of exactly that one timestamp.
C1_CrossingResetsWindow ==
    [][\A g \in Guilds, u \in Users :
          /\ IsMessage(event', g, u) =>
                /\ InWindowCount(SPAM_TRACK, g, u, now, SPAM_WINDOW)
                      >= SPAM_THRESHOLD => VerdictRaised(g, u)
                /\ StampsOf(SPAM_TRACK, g, u) = <<>> /\ SPAM_WINDOW >= 0
                      => StampsOf(SPAM_TRACK', g, u) = <<now>>
          /\ IsReset(event', g, u) =>
                /\ g \in DOMAIN SPAM_TRACK' /\ u \in DOMAIN SPAM_TRACK'[g]
                /\ SPAM_TRACK'[g][u] = <<>>]_vars

\* A member muted by a completed verdict writes again in the same tick and
\* the window holds that one message.
C1_Witness ==
    /\ now = 0 /\ SPAM_WINDOW >= 0 /\ SPAM_THRESHOLD >= 2
    /\ event.op = "message" /\ <<event.g, event.u>> \in muted
    /\ PendingFor(event.g, event.u) = {}
    /\ StampsOf(SPAM_TRACK, event.g, event.u) = <<0>>

\* C2: one burst, one sanction: while the handler of a verdict is still
\* suspended in its platform calls and the burst that raised it is still in
\* the window, a further message of the same actor, which would not reach
\* the threshold on a reset window, raises no second verdict.
C2_OneSanctionPerBurst ==
    [][\A g \in Guilds, u \in Users :
          IsMessage(event', g, u) /\ PendingFor(g, u) # {}
              /\ SPAM_THRESHOLD >= 2 /\ SPAM_WINDOW >= 0
              /\ Len(StampsOf(SPAM_TRACK, g, u)) >= SPAM_THRESHOLD
          => ~VerdictRaised(g, u)]_vars

\* C3 as stated: with a valid (positive) threshold and window, an event
\* that finds every earlier timestamp of its actor further than the window
\* away never raises the verdict.
C3_SpacedNeverExceeds_AsStated ==
    [][\A g \in Guilds, u \in Users :
          IsMessage(event', g, u) /\ SPAM_THRESHOLD >= 1 /\ SPAM_WINDOW >= 1
              /\ Spaced(SPAM_TRACK, g, u, now, SPAM_WINDOW)
          => ~VerdictRaised(g, u)]_vars

\* C3 amended: with a threshold of at least 2 and any window, an event that
\* finds every earlier timestamp of its actor further than the window away
\* never raises the verdict.
C3_SpacedNeverExceeds ==
    [][\A g \in Guilds, u \in Users :
          IsMessage(event', g, u) /\ SPAM_THRESHOLD >= 2
              /\ Spaced(SPAM_TRACK, g, u, now, SPAM_WINDOW)
          => ~VerdictRaised(g, u)]_vars

\* A message that dropped an older timestamp of its actor and, the threshold
\* being 2 or more, raised no verdict.
C3_Witness ==
    /\ event.op = "message" /\ event.dropped
    /\ SPAM_THRESHOLD >= 2 /\ SPAM_WINDOW >= 0
    /\ PendingFor(event.g, event.u) = {}
    /\ StampsOf(SPAM_TRACK, event.g, event.u) = <<now>>

(* -------------------- claims: temporary sanctions ---------------------- *)

Key(req) == <<req.g, req.u, req.kind>>
\* The coroutine of the request sleeps towards its reverse call.
TimerLive(r) == reqs[r].pc = "sleep"

\* C4: a temporary sanction that an operator reversed by hand before its
\* timer fired gets no reverse call from its own coroutine: the
\* cancellation's call is the only one.
C4_CancelStopsTimer ==
    \A r \in ReqIds : reqs[r].cancelled => reqs[r].autoRev = 0

\* C5: per (community, subject, kind) at most one reversal timer is pending,
\* and at most one TempAction record is stored.
C5_OneTimerPerKey ==
    /\ \A r1, r2 \in ReqIds :
          TimerLive(r1) /\ TimerLive(r2) /\ Key(reqs[r1]) = Key(reqs[r2])
          => r1 = r2
    /\ Cardinality(TempActions(DATA)) <=
          Cardinality({Key(reqs[r]) : r \in {x \in ReqIds : TimerLive(x)}})

\* C6: a temporary sanction that took effect and is never cancelled has no
\* reverse call of its own before its duration is over and exactly one once
\* it is over, and no TempAction record stays behind.
C6_ReversedOnceWhenDue ==
    \A r \in ReqIds :
        reqs[r].applied /\ ~reqs[r].cancelled =>
            /\ now < reqs[r].due => reqs[r].autoRev = 0
            /\ now > reqs[r].due => reqs[r].autoRev = 1
            /\ reqs[r].autoRev = 1 => Key(reqs[r]) \notin TempActions(DATA)

\* C7: when the platform refuses the sanction, the invoker is told so (by a
\* message or by the exception) and no reversal is scheduled or made for
\* the request.
C7_FailedApplySchedulesNothing ==
    \A r \in ReqIds :
        reqs[r].applyFailed =>
            /\ reqs[r].msgs \cap {"failed", "raised"} # {}
            /\ ~TimerLive(r)
            /\ reqs[r].autoRev = 0

\* C8: while the reversal of an applied temporary sanction is pending, the
\* store holds a TempAction record for its key, in memory and in the file.
C8_PendingReversalIsStored ==
    \A r \in ReqIds :
        TimerLive(r) /\ reqs[r].applied =>
            /\ Key(reqs[r]) \in TempActions(DATA)
            /\ Key(reqs[r]) \in TempActions(Load(file))

\* C9: an automatic reverse call that fails is made once, is reported, and
\* leaves no TempAction record.
C9_FailedReversalIsReported ==
    \A r \in ReqIds :
        reqs[r].revFailed =>
            /\ reqs[r].autoRev = 1
            /\ "reverse failed" \in reqs[r].msgs
            /\ "reversed" \notin reqs[r].msgs
            /\ Key(reqs[r]) \notin TempActions(DATA)

\* C10: a restart loses no pending reversal: an applied temporary sanction
\* that was neither reversed nor cancelled still has a timer (re-armed on
\* startup) or has been reversed on startup.
C10_ReversalSurvivesRestart ==
    \A r \in ReqIds :
        reqs[r].applied /\ ~reqs[r].cancelled /\ reqs[r].autoRev = 0
        => reqs[r].pc # "lost"


(* --------------------------- claims: store ----------------------------- *)

StoreCmds == {"warn", "clearwarns", "tag", "jail", "unjail", "backup",
              "setmodrole", "setwelcome"}
Kinds == {"warnings", "jails", "tags", "config", "backups", "tempactions"}

\* The record a document holds for a community and a subject, as a set
\* with that record or with nothing.  A jail record belongs to the
\* community it names; a backup and a configuration belong to a community
\* as a whole.
Records(data, kind, g, u) ==
    CASE kind = "warnings" ->
            IF g \in DOMAIN data.warnings /\ u \in DOMAIN data.warnings[g]
            THEN {data.warnings[g][u]} ELSE {}
      [] kind = "tags" ->
            IF g \in DOMAIN data.tags /\ u \in DOMAIN data.tags[g]
            THEN {data.tags[g][u]} ELSE {}
      [] kind = "jails" ->
            IF u \in DOMAIN data.jails /\ data.jails[u].guild = g
            THEN {data.jails[u]} ELSE {}
      [] kind = "config" ->
            IF g \in DOMAIN data.config THEN {data.config[g]} ELSE {}
      [] kind = "backups" ->
            IF g \in DOMAIN data.backups THEN {data.backups[g]} ELSE {}
      [] OTHER -> {k \in TempActions(data) : k[1] = g /\ k[2] = u}

\* C11: whenever a store-mutating command has reported success, the file
\* holds the document that is in memory.
C11_SuccessMeansSaved ==
    event.op \in StoreCmds /\ event.said = "success" => file = Dump(DATA)

\* C12: after a process death inside save_data the file is a whole document
\* (the one before or the one being written), never a torn one.
C12_SaveIsCrashAtomic == event.fault = "killed" => Parsable(file)

\* C13: a start that finds a file it cannot parse ends without a running
\* process (so with no store, empty or default) and leaves the file as it
\* found it.
C13_CorruptFileStopsStartup ==
    [][event'.op = "start" /\ ~Parsable(file) => ~up' /\ file' = file]_vars
C13_Witness == event.op = "start" /\ event.fault = "load" /\ ~up

C15_WritesStayInCommunity ==
    [][event'.op \in StoreCmds /\ up' =>
          \A kind \in Kinds, b \in Guilds \ {event'.g}, u \in Users :
             Records(DATA', kind, b, u) = Records(DATA, kind, b, u)]_vars

(* ----------------------- claims: configuration ------------------------- *)

\* C16: an anti-spam configuration whose threshold or window is zero or
\* negative is reported as invalid and changes neither value.
C16_InvalidConfigRejected ==
    [][event'.op = "antispam"
       /\ (event'.arg[1] <= 0 \/ event'.arg[2] <= 0) =>
          /\ event'.said = "failure"
          /\ UNCHANGED <<SPAM_THRESHOLD, SPAM_WINDOW>>]_vars

\* C17: an anti-spam configuration issued in one community leaves the
\* threshold and the window used for every other community as they were.
C17_ConfigIsPerCommunity ==
    [][event'.op = "antispam" =>
          \A b \in Guilds \ {event'.g} :
             /\ EffectiveThreshold(b)' = EffectiveThreshold(b)
             /\ EffectiveWindow(b)' = EffectiveWindow(b)]_vars

\* C18: a temporary sanction requested with a duration of zero or less is
\* turned down: the platform call is never made, nothing sleeps towards a
\* reversal, no reversal is made, and the invoker is told of the failure.
C18_InvalidDurationRejected ==
    \A r \in ReqIds :
        reqs[r].kind \in {"ban", "mute", "jail"} /\ reqs[r].dur <= 0
        /\ reqs[r].pc # "create" =>
            /\ ~reqs[r].applied /\ ~reqs[r].applyFailed
            /\ ~TimerLive(r) /\ reqs[r].autoRev = 0
            /\ reqs[r].msgs = {"failed"}

(* -------------------------- claims: executor --------------------------- *)

\* C19: no community ever has more than one role named Muted.
C19_OneMutedRole == \A g \in Guilds : mutedRole[g] <= 1

ExecutorOps == {"mute", "unmute", "jail", "unjail", "ban", "unban"}

\* C20: a mute, unmute, jail, unjail, ban or unban whose platform call
\* raised tells its invoker of a failure (or ends in the exception), and
\* never of a success.
C20_PlatformFailureReported ==
    event.op \in ExecutorOps /\ event.fault = "platform" =>
        event.said \in {"failure", "raised"}


(* ------------------------ claims: persistence -------------------------- *)

\* C21: a store command whose save_data raised reports the failure and
\* leaves the document in memory as it was before the command.
C21_FailedWriteNotCommitted ==
    [][event'.fault = "save" =>
          event'.said = "failure" /\ DATA' = DATA]_vars

(* -------------------------- claims: the sweep -------------------------- *)

\* C22: once a sweep has run, a second sweep with no step in between
\* changes nothing, and a second sweep at any later time gives what a
\* single sweep at that time would have given.
C22_SweepIdempotent ==
    [][event'.op = "sweep" =>
          /\ Sweep(SPAM_TRACK', now, SPAM_WINDOW) = SPAM_TRACK'
          /\ \A t \in now..MaxTime :
                Sweep(SPAM_TRACK', t, SPAM_WINDOW)
                   = Sweep(SPAM_TRACK, t, SPAM_WINDOW)]_vars
C22_Witness ==
    /\ event.op = "sweep"
    /\ \E g \in DOMAIN SPAM_TRACK : SPAM_TRACK[g] = <<>>

\* C23: right after a sweep (under a threshold of at least 1 and a window
\* of at least 0) the index holds no timestamp older than the window, no
\* actor with an empty sequence and no community with an empty actor map.
C23_SweepLeavesNothingStale ==
    event.op = "sweep" /\ SPAM_THRESHOLD >= 1 /\ SPAM_WINDOW >= 0 =>
        \A g \in DOMAIN SPAM_TRACK :
            /\ DOMAIN SPAM_TRACK[g] # {}
            /\ \A u \in DOMAIN SPAM_TRACK[g] :
                  /\ SPAM_TRACK[g][u] # <<>>
                  /\ \A i \in 1..Len(SPAM_TRACK[g][u]) :
                        now - SPAM_TRACK[g][u][i] <= SPAM_WINDOW

\* C24: when a message handler or a sweep has completed (under a threshold
\* of at least 1 and a window of at least 0) no actor of the index has an
\* empty sequence.
C24_NoEmptyActorEntry ==
    /\ event.op \in {"message", "reset", "sweep"}
    /\ \A h \in HandlerIds : handlers[h].pc = "idle"
    /\ SPAM_THRESHOLD >= 1 /\ SPAM_WINDOW >= 0
    => \A g \in DOMAIN SPAM_TRACK : \A u \in DOMAIN SPAM_TRACK[g] :
          SPAM_TRACK[g][u] # <<>>

\* C27: while a message handler is suspended in its spam branch the index
\* keeps the entry of the handler's community, whatever the sweep removed,
\* so the reset that ends the branch writes into an existing entry.
C27_ResetFindsCommunity ==
    \A h \in HandlerIds :
        handlers[h].pc # "idle" => handlers[h].g \in DOMAIN SPAM_TRACK
C27_Witness ==
    \E h \in HandlerIds :
        /\ handlers[h].pc # "idle"
        /\ handlers[h].g \in DOMAIN SPAM_TRACK
        /\ handlers[h].u \notin DOMAIN SPAM_TRACK[handlers[h].g]
        /\ event.op = "sweep"

(* ---------------------------- claims: jail ----------------------------- *)

\* C28: when a jail or unjail command has completed, the store holds a
\* jail record of the member for the community exactly if the member holds
\* the community's Jailed role.
C28_RecordIffRole ==
    event.op \in {"jail", "unjail"} /\ event.said \in {"success", "failure"} =>
        (Records(DATA, "jails", event.g, event.u) # {}
            <=> <<event.g, event.u>> \in jailed)


(* ------------------------ claims: overlapping -------------------------- *)

\* The sanction of a kind is in force for the member on the platform.
InForce(kind, g, u) ==
    CASE kind = "ban" -> <<g, u>> \in banned
      [] kind = "mute" -> <<g, u>> \in muted
      [] OTHER -> <<g, u>> \in jailed

\* C26: with every duration positive, a temporary sanction that was
\* applied, has not been lifted by an operator and has not run out is in
\* force: no timer of an earlier request has lifted it.
C26_LaterSanctionOutlivesTimer ==
    (\A k \in ReqIds : reqs[k].kind = "none" \/ reqs[k].dur > 0) =>
        \A r \in ReqIds :
            /\ TimerLive(r) /\ reqs[r].applied /\ ~reqs[r].cancelled
            /\ reqs[r].due > now
            => InForce(reqs[r].kind, reqs[r].g, reqs[r].u)


(* ------------------------ claims: concurrency -------------------------- *)

\* Some temporary sanction is waiting for its expiry.
Sleeping == \E r \in ReqIds : TimerLive(r)

\* What stays possible while a temporary sanction waits: a message is
\* taken in, a suspended handler finishes, a further temporary ban is
\* applied, and a ban that is due is lifted.
OtherWorkEnabled ==
    /\ \A g \in SpamGuilds, u \in Users :
          /\ Len(StampsOf(SPAM_TRACK, g, u)) < MaxStamps
          /\ \E h \in HandlerIds : handlers[h].pc = "idle"
          => ENABLED OnMessage(g, u)
    /\ \A h \in HandlerIds :
          handlers[h].pc = "add" => ENABLED OnMessageMuted(h)
    /\ (\E r \in ReqIds : reqs[r].pc = "idle") =>
          \A g \in TempGuilds, u \in Users, d \in DurationChoices :
              ENABLED Tempban(g, u, d, TRUE, TRUE)
    /\ \A r \in ReqIds :
          TimerLive(r) /\ reqs[r].kind = "ban" /\ now >= reqs[r].due
          => ENABLED TempbanWake(r, TRUE)

\* A message taken in is recorded and judged as line 94-97 do it, and a
\* timer that fires does so at its own expiry and leaves the others alone.
OtherWorkDone ==
    /\ \A g \in SpamGuilds, u \in Users :
          IsMessage(event', g, u) =>
              /\ StampsOf(SPAM_TRACK', g, u) =
                    Prune(Append(StampsOf(SPAM_TRACK, g, u), now), now,
                          SPAM_WINDOW)
              /\ (\E h \in HandlerIds :
                      handlers[h].pc = "idle" /\ handlers'[h].pc # "idle")
                 <=> Len(StampsOf(SPAM_TRACK', g, u)) >= SPAM_THRESHOLD
    /\ \A r \in ReqIds :
          TimerLive(r) /\ reqs'[r].pc = "done" =>
              /\ now = reqs[r].due
              /\ \A k \in ReqIds \ {r} : reqs'[k] = reqs[k]

\* C25: while a temporary sanction waits for its expiry, messages are
\* still taken in, recorded and judged, further temporary sanctions can be
\* applied, and each is lifted at its own expiry.
C25_PendingNeverBlocks ==
    /\ [](Sleeping => OtherWorkEnabled)
    /\ [][Sleeping => OtherWorkDone]_vars

\* One temporary ban waits while a message has been judged as spam and
\* another temporary ban has been lifted.
C25_Witness ==
    /\ Sleeping
    /\ event.op = "message"
    /\ \E h \in HandlerIds : handlers[h].pc # "idle"
    /\ \E r \in ReqIds : reqs[r].pc = "done" /\ reqs[r].autoRev = 1

=============================================================================
